---- MODULE Spec2Model ----
(***************************************************************************)
(* Cross-matching of elliptical source catalogues (catalog_matching.py).   *)
(*                                                                         *)
(* Angles are integers.  Catalogue positions and axes are whole arcminutes; *)
(* the polygon vertices and the two sides of every coarse comparison are   *)
(* kept in units of 1/Scale arcminute so that the source's arithmetic is   *)
(* exact: FWHM_to_sigma_extent = sigma_extent / (2 sqrt(2 ln 2)) is the    *)
(* rational sigma_extent * SigmaNum / SigmaDen (73/31 = 2.35484).          *)
(* All catalogue sources lie on the parallel Dec = 0 with PA 0 or 90, so   *)
(* that the great-circle separation is the RA difference, the local        *)
(* offsets are exact and two footprints meet exactly when their RA extents *)
(* meet.                                                                   *)
(*                                                                         *)
(* The source finder (sourcefinding.py) is a second program with its own   *)
(* specification SfSpec; its state is the record sf.                       *)
(***************************************************************************)
EXTENDS Integers, Sequences, FiniteSets, TLC

VARIABLES pc, args, catalog, ext_table, pointing, ext, matches, calls, match_info,
          out, sf

vars == <<pc, args, catalog, ext_table, pointing, ext, matches, calls, match_info,
          out, sf>>

\* ------------------------------------------------------------------ bounds
MaxExt == 2
MaxPt == 2

\* ------------------------------------------------------- program constants
SigmaNum == 31
SigmaDen == 73
RaJump == 300
FullCircle == 360

\* arcminutes in the full circle, and the polygon unit
Turn == FullCircle * 60
Scale == 2 * SigmaDen
Circle == Turn * Scale

\* ------------------------------------------------------------ small helpers
Abs(x) == IF x < 0 THEN -x ELSE x

SetMin(S) == CHOOSE x \in S : \A y \in S : x <= y

SetMax(S) == CHOOSE x \in S : \A y \in S : x >= y

Range(s) == {s[k] : k \in 1..Len(s)}

RECURSIVE SeqSum(_)
SeqSum(s) == IF s = <<>> THEN 0 ELSE s[1] + SeqSum(Tail(s))

RECURSIVE Gcd(_, _)
Gcd(a, b) == IF b = 0 THEN Abs(a) ELSE Gcd(b, a % b)

\* ---------------------------------------------------------------- rationals
\* Real-valued results (flux ratios, means, medians, variances) are exact
\* fractions in lowest terms with a positive denominator.
Rat(n, d) ==
    LET s == IF d < 0 THEN -1 ELSE 1
        g == Gcd(Abs(n), Abs(d))
    IN  [num |-> (s * n) \div g, den |-> (s * d) \div g]

RInt(x) == [num |-> x, den |-> 1]

RAdd(p, q) == Rat(p.num * q.den + q.num * p.den, p.den * q.den)

RSub(p, q) == Rat(p.num * q.den - q.num * p.den, p.den * q.den)

RMul(p, q) == Rat(p.num * q.num, p.den * q.den)

RDiv(p, q) == Rat(p.num * q.den, p.den * q.num)

RLeq(p, q) == p.num * q.den <= q.num * p.den

RECURSIVE RSum(_)
RSum(s) == IF s = <<>> THEN RInt(0) ELSE RAdd(s[1], RSum(Tail(s)))

RECURSIVE IntPow(_, _)
IntPow(b, e) == IF e = 0 THEN 1 ELSE b * IntPow(b, e - 1)

\* ------------------------------------------------------------ sky geometry
\* SkyCoord.separation on the parallel Dec = 0: the shorter way round.
Separation(a, b) ==
    LET d == (a.RA - b.RA) % Turn
    IN  IF d > Turn - d THEN Turn - d ELSE d

\* SkyCoord.spherical_offsets_to: (dra, ddec) from a to b, dra in (-180, 180].
SphericalOffsetsTo(a, b) ==
    LET d == (b.RA - a.RA) % Turn
    IN  [dra  |-> IF 2 * d > Turn THEN d - Turn ELSE d,
         ddec |-> b.DEC - a.DEC]

\* sqrt(dra^2 + ddec^2) / sky_separation.  On the parallel Dec = 0 the
\* quotient is 1 for distinct positions.  For coincident positions the
\* divisor is 0: the quotient is nan when the offsets come out as exact
\* zeros and inf when the frame rotation leaves a rounding residue in them;
\* z is that outcome.
DeprojectionFactor(src, p, z) ==
    IF Separation(src, p) = 0 THEN z ELSE "one"

\* The pointing sources whose position coincides with that of src.
Coincident(src, cat) == {j \in 1..Len(cat) : Separation(src, cat[j]) = 0}

ZeroDivOutcome == {"nan", "inf"}

\* maj_match before disambiguation: sky_separation <
\*   FWHM_to_sigma_extent * deprojection_factor * (Maj/2 + maj/2) + search_dist
\* A comparison with nan is false; inf times a zero extent is nan.
MajBound(src, p, sigma_extent, search_dist) ==
    sigma_extent * SigmaNum * (src.Maj + p.Maj) + Scale * search_dist

MajMatch(src, p, sigma_extent, search_dist, z) ==
    LET dpf == DeprojectionFactor(src, p, z)
    IN  CASE dpf = "nan" -> FALSE
          [] dpf = "inf" -> sigma_extent * SigmaNum * (src.Maj + p.Maj) > 0
          [] OTHER       -> Scale * Separation(src, p)
                              < MajBound(src, p, sigma_extent, search_dist)

\* min_match: sky_separation <= FWHM_to_sigma_extent * (Min/2 + min/2)
MinMatch(src, p, sigma_extent) ==
    Scale * Separation(src, p) <= sigma_extent * SigmaNum * (src.Min + p.Min)

\* ----------------------------------------------------------------- polygons
\* helpers.make_header: the projection header handed to every match call.
MakeHeader(header) == [CRVAL1 |-> header.CRVAL1, CRVAL2 |-> header.CRVAL2]

WrapRA(x) == x % Circle

\* helpers.ellipse_skyprojection: the footprint as a closed vertex sequence
\* (East, North, West, South, East) in units of 1/Scale arcminute, RA folded
\* into [0, 360).  maj and min are full axes; PA 0 puts the major axis along
\* Dec, PA 90 along RA.
EllipseSkyprojection(ra, dec, maj, min, pa, header) ==
    LET a == IF pa = 0 THEN min \div 2 ELSE maj \div 2
        b == IF pa = 0 THEN maj \div 2 ELSE min \div 2
        c == Scale * ra
        d == Scale * dec
    IN  << [ra |-> WrapRA(c + a), dec |-> d],
           [ra |-> WrapRA(c),     dec |-> d + b],
           [ra |-> WrapRA(c - a), dec |-> d],
           [ra |-> WrapRA(c),     dec |-> d - b],
           [ra |-> WrapRA(c + a), dec |-> d] >>

\* abs(np.diff(poly[:,0])) > 300 somewhere
RaCheck(poly) ==
    \E k \in 1..(Len(poly) - 1) :
        Abs(poly[k + 1].ra - poly[k].ra) > RaJump * 60 * Scale

DecsOf(poly) == {poly[k].dec : k \in 1..Len(poly)}

RasOf(poly) == {poly[k].ra : k \in 1..Len(poly)}

LowSide(v) == 2 * v.ra < Circle

HighSide(v) == ~LowSide(v)

\* helpers.ellipse_RA_check: one polygon when no edge jumps over the RA
\* discontinuity, otherwise the part on either side of it, each closed along
\* the meridian RA = 0 (= 360).
EllipseRACheck(poly) ==
    IF ~RaCheck(poly)
    THEN << poly >>
    ELSE LET top == SetMax(DecsOf(poly))
             bot == SetMin(DecsOf(poly))
         IN  << << [ra |-> 0, dec |-> top] >> \o SelectSeq(poly, LowSide)
                   \o << [ra |-> 0, dec |-> bot] >>,
                << [ra |-> Circle, dec |-> top] >> \o SelectSeq(poly, HighSide)
                   \o << [ra |-> Circle, dec |-> bot] >> >>

HasArea(poly) ==
    /\ SetMax(RasOf(poly)) > SetMin(RasOf(poly))
    /\ SetMax(DecsOf(poly)) > SetMin(DecsOf(poly))

\* not Polygon(p).intersection(Polygon(q)).is_empty, for footprints that are
\* symmetric about the common parallel: the RA extents (and the Dec extents)
\* meet; touching counts.  A ring without area has an empty intersection.
PolygonsIntersect(p, q) ==
    /\ HasArea(p) /\ HasArea(q)
    /\ SetMin(RasOf(p)) <= SetMax(RasOf(q))
    /\ SetMin(RasOf(q)) <= SetMax(RasOf(p))
    /\ SetMin(DecsOf(p)) <= SetMax(DecsOf(q))
    /\ SetMin(DecsOf(q)) <= SetMax(DecsOf(p))

\* As DoTheyOverlap, with the inversion of is_empty left out where neither
\* footprint crosses RA = 0.
DoTheyOverlapNotInverted(check_source, to_sources) ==
    IF RaCheck(check_source) \/ RaCheck(to_sources)
    THEN \E a \in 1..Len(EllipseRACheck(check_source)) :
         \E b \in 1..Len(EllipseRACheck(to_sources)) :
             PolygonsIntersect(EllipseRACheck(check_source)[a],
                               EllipseRACheck(to_sources)[b])
    ELSE ~PolygonsIntersect(check_source, to_sources)

\* As DoTheyOverlap, with the footprints intersected as they are projected,
\* whether or not one of them crosses RA = 0.
DoTheyOverlapUnsplit(check_source, to_sources) ==
    PolygonsIntersect(check_source, to_sources)

\* As DoTheyOverlap, trying only the last part of the check source against
\* the parts of the other footprint.
DoTheyOverlapLastPartOnly(check_source, to_sources) ==
    IF RaCheck(check_source) \/ RaCheck(to_sources)
    THEN \E b \in 1..Len(EllipseRACheck(to_sources)) :
             PolygonsIntersect(
                 EllipseRACheck(check_source)[Len(EllipseRACheck(check_source))],
                 EllipseRACheck(to_sources)[b])
    ELSE PolygonsIntersect(check_source, to_sources)

\* As DoTheyOverlap, reporting overlap of split footprints only when every
\* pair of parts intersects.
DoTheyOverlapEveryPair(check_source, to_sources) ==
    IF RaCheck(check_source) \/ RaCheck(to_sources)
    THEN \A a \in 1..Len(EllipseRACheck(check_source)) :
         \A b \in 1..Len(EllipseRACheck(to_sources)) :
             PolygonsIntersect(EllipseRACheck(check_source)[a],
                               EllipseRACheck(to_sources)[b])
    ELSE PolygonsIntersect(check_source, to_sources)

\* The body of the disambiguation loop for one pointing source: both
\* footprints are split when either crosses RA = 0, and any pair of parts
\* that intersects makes the sources overlap.
DoTheyOverlap(check_source, to_sources) ==
    IF RaCheck(check_source) \/ RaCheck(to_sources)
    THEN LET split_check_s_source == EllipseRACheck(check_source)
             split_to_s_sources   == EllipseRACheck(to_sources)
         IN  \E a \in 1..Len(split_check_s_source) :
             \E b \in 1..Len(split_to_s_sources) :
                 PolygonsIntersect(split_check_s_source[a], split_to_s_sources[b])
    ELSE PolygonsIntersect(check_source, to_sources)

CheckSource(src, sigma_extent, header) ==
    EllipseSkyprojection(src.RA, src.DEC,
                         2 * sigma_extent * SigmaNum * src.Maj,
                         2 * sigma_extent * SigmaNum * src.Min,
                         src.PA, header)

ToSources(p, sigma_extent, search_dist, header) ==
    EllipseSkyprojection(p.RA, p.DEC,
                         2 * sigma_extent * SigmaNum * p.Maj + Scale * search_dist,
                         2 * sigma_extent * SigmaNum * p.Min + Scale * search_dist,
                         p.PA, header)

ExactOverlap(src, p, sigma_extent, search_dist, header) ==
    DoTheyOverlap(CheckSource(src, sigma_extent, header),
                  ToSources(p, sigma_extent, search_dist, header))

\* ------------------------------------------------------ SourceEllipse.match
\* The set S of numbers as the ascending sequence np.where returns.
RECURSIVE Ascending(_)
Ascending(S) ==
    IF S = {} THEN <<>> ELSE <<SetMin(S)>> \o Ascending(S \ {SetMin(S)})

\* As MSourceIdx, running the exact test for every candidate, the definite
\* matches included.
MSourceIdxEveryCandidate(min_match, maj_match) ==
    {j \in DOMAIN min_match : maj_match[j]}

\* As MSourceIdx, taking only the candidates that are not definite matches.
MSourceIdxCandidatesOnly(min_match, maj_match) ==
    {j \in DOMAIN min_match : maj_match[j] /\ ~min_match[j]}

\* np.where(np.logical_xor(min_match, maj_match)): the sources the exact test
\* is run for.
MSourceIdx(min_match, maj_match) ==
    {j \in DOMAIN min_match : min_match[j] # maj_match[j]}

\* One call of SourceEllipse.match for the external source src against the
\* pointing table cat.  z[j] is the outcome of the division by a zero
\* separation for a pointing source j at the position of src.  The record keeps the coarse arrays,
\* the sources the exact test was run for, maj_match after disambiguation,
\* how the call ended, and the returned indices (0-based, ascending).
SourceMatch(src, cat, sigma_extent, search_dist, header, z) ==
    LET n           == Len(cat)
        maj_coarse  == [j \in 1..n |->
                          MajMatch(src, cat[j], sigma_extent, search_dist,
                                   IF j \in DOMAIN z THEN z[j] ELSE "one")]
        min_match   == [j \in 1..n |-> MinMatch(src, cat[j], sigma_extent)]
        msource_idx == MSourceIdx(min_match, maj_coarse)
        maj_match   == [j \in 1..n |->
                          IF j \in msource_idx
                          THEN ExactOverlap(src, cat[j], sigma_extent,
                                            search_dist, header)
                          ELSE maj_coarse[j]]
    IN  [source      |-> src,
         min_match   |-> min_match,
         maj_coarse  |-> maj_coarse,
         msource_idx |-> msource_idx,
         maj_match   |-> maj_match,
         outcome     |-> "returned",
         result      |-> Ascending({j - 1 : j \in {k \in 1..n : maj_match[k]}})]

\* ------------------------------------------------------------------ inputs
\* Catalogue rows: RA, DEC and the FWHM axes in arcminutes, PA in degrees.
ExtPool ==
    { [RA |-> 600,   DEC |-> 0, Maj |-> 4, Min |-> 2, PA |-> 0,
       Peak_flux |-> 2, Total_flux |-> 4],
      [RA |-> 21599, DEC |-> 0, Maj |-> 4, Min |-> 2, PA |-> 90,
       Peak_flux |-> 1, Total_flux |-> 2],
      [RA |-> 604,   DEC |-> 0, Maj |-> 2, Min |-> 2, PA |-> 0,
       Peak_flux |-> 2, Total_flux |-> 2] }

PtPool ==
    { [RA |-> 600, DEC |-> 0, Maj |-> 4, Min |-> 2, PA |-> 0,
       Peak_flux |-> 3, Total_flux |-> 5, Quality_flag |-> 1],
      [RA |-> 602, DEC |-> 0, Maj |-> 2, Min |-> 2, PA |-> 0,
       Peak_flux |-> 1, Total_flux |-> 2, Quality_flag |-> 1],
      [RA |-> 604, DEC |-> 0, Maj |-> 4, Min |-> 2, PA |-> 90,
       Peak_flux |-> 2, Total_flux |-> 3, Quality_flag |-> 1],
      [RA |-> 2,   DEC |-> 0, Maj |-> 4, Min |-> 2, PA |-> 0,
       Peak_flux |-> 1, Total_flux |-> 1, Quality_flag |-> 1],
      [RA |-> 601, DEC |-> 0, Maj |-> 2, Min |-> 2, PA |-> 0,
       Peak_flux |-> 5, Total_flux |-> 5, Quality_flag |-> 0] }

\* Tables of at most n distinct rows of S, in every order.
TablesUpTo(S, n) ==
    {t \in UNION {[1..k -> S] : k \in 0..n} :
        \A a, b \in 1..Len(t) : a # b => t[a] # t[b]}

\* The tables among them whose rows are in the order of increasing RA: one
\* order for every set of rows.
ByRA(tables) ==
    {t \in tables : \A a, b \in 1..Len(t) : a < b => t[a].RA < t[b].RA}

\* The command line: --match_sigma_extent, --search_dist (arcseconds),
\* --fluxtype, --alpha.  Every value of each option occurs; not every
\* combination does.
ArgSpace ==
    {a \in [match_sigma_extent : {0, 3},
            search_dist        : {-120, 0, 120},
            fluxtype           : {"Total", "Peak", "Integrated"},
            alpha              : {0, 1}] :
        /\ a.match_sigma_extent = 0 => (a.search_dist = 0 /\ a.fluxtype = "Total")
        /\ a.fluxtype = "Peak" => a.alpha = 1
        /\ a.fluxtype = "Integrated" => a.alpha = 0
        /\ a.search_dist # 0 => a.fluxtype = "Total"}

\* The pointing header: field centre and observing frequency (MHz); the
\* external survey's frequency comes with its beam.
PointingHeader == [CRVAL1 |-> 600, CRVAL2 |-> 0, freq |-> 700]

ExtFreq == 1400

NoCatalog == [cat |-> <<>>, sources |-> <<>>, header |-> PointingHeader, freq |-> 0]

NoInfo == [made |-> FALSE]

NoFile == [written |-> FALSE]

\* sourcefinding.py is a program of its own: it is not run here.
NoSourcefinding == [pc |-> "not_run"]

\* ----------------------------------------------------------------- classes
\* SourceEllipse.__init__: the ellipse of one catalogue row.
SourceEllipse(row) ==
    [RA |-> row.RA, DEC |-> row.DEC, Maj |-> row.Maj, Min |-> row.Min,
     PA |-> row.PA, PeakFlux |-> row.Peak_flux, IntFlux |-> row.Total_flux]

GoodQuality(row) == row.Quality_flag = 1

\* As Pointing, building the ellipses from every row of the catalogue handed
\* in, the rows the quality filter drops included.
PointingSourcesOfAllRows(table) ==
    LET cat == SelectSeq(table, GoodQuality)
    IN  [cat     |-> cat,
         sources |-> [k \in 1..Len(table) |-> SourceEllipse(table[k])],
         header  |-> PointingHeader,
         freq    |-> PointingHeader.freq]

\* Pointing.__init__: rows with Quality_flag 1, one SourceEllipse per row.
Pointing(table) ==
    LET cat == SelectSeq(table, GoodQuality)
    IN  [cat     |-> cat,
         sources |-> [k \in 1..Len(cat) |-> SourceEllipse(cat[k])],
         header  |-> PointingHeader,
         freq    |-> PointingHeader.freq]

\* ExternalCatalog.__init__ for a named survey: every row is kept.
ExternalCatalog(table) ==
    [cat     |-> table,
     sources |-> [k \in 1..Len(table) |-> SourceEllipse(table[k])],
     header  |-> PointingHeader,
     freq    |-> ExtFreq]

\* -------------------------------------------------------------------- main
Init ==
    /\ pc = "start"
    /\ args \in ArgSpace
    /\ catalog \in ByRA(TablesUpTo(PtPool, MaxPt))
    /\ ext_table \in TablesUpTo(ExtPool, MaxExt)
    /\ pointing = NoCatalog
    /\ ext = NoCatalog
    /\ matches = <<>>
    /\ calls = <<>>
    /\ match_info = NoInfo
    /\ out = NoFile
    /\ sf = NoSourcefinding

sigma_extent == args.match_sigma_extent

search_dist == args.search_dist \div 60

\* main up to the call of match_catalogs: build the pointing and the external
\* catalogue; stop when the external table has no rows.
Load ==
    /\ pc = "start"
    /\ pointing' = Pointing(catalog)
    /\ ext' = ExternalCatalog(ext_table)
    /\ pc' = IF Len(ext_table) = 0 THEN "exit_no_sources" ELSE "matching"
    /\ UNCHANGED <<args, catalog, ext_table, matches, calls, match_info, out, sf>>

\* As MatchCatalogsStep, appending only the results that are not empty.
MatchCatalogsStepSkipEmpty ==
    /\ pc = "matching"
    /\ Len(calls) < Len(ext.sources)
    /\ \E z \in [Coincident(ext.sources[Len(calls) + 1], pointing.cat)
                    -> ZeroDivOutcome] :
         LET source == ext.sources[Len(calls) + 1]
             call   == SourceMatch(source, pointing.cat, sigma_extent,
                                   search_dist, MakeHeader(pointing.header), z)
         IN  /\ matches' = IF call.result = <<>> THEN matches
                            ELSE Append(matches, call.result)
             /\ calls' = Append(calls, call)
    /\ pc' = IF Len(calls) + 1 = Len(ext.sources) THEN "info" ELSE "matching"
    /\ UNCHANGED <<args, catalog, ext_table, pointing, ext, match_info, out, sf>>

\* As MatchCatalogsStep, with match scaling the major axes it was handed in
\* place, in the Maj column of the pointing catalogue.
MatchCatalogsStepScalingAxes ==
    /\ pc = "matching"
    /\ Len(matches) < Len(ext.sources)
    /\ \E z \in [Coincident(ext.sources[Len(matches) + 1], pointing.cat)
                    -> ZeroDivOutcome] :
         LET source == ext.sources[Len(matches) + 1]
             call   == SourceMatch(source, pointing.cat, sigma_extent,
                                   search_dist, MakeHeader(pointing.header), z)
         IN  /\ matches' = Append(matches, call.result)
             /\ calls' = Append(calls, call)
    /\ pointing' = [pointing EXCEPT !.cat =
                       [k \in 1..Len(pointing.cat) |->
                          [pointing.cat[k] EXCEPT !.Maj = @ * sigma_extent]]]
    /\ pc' = IF Len(matches) + 1 = Len(ext.sources) THEN "info" ELSE "matching"
    /\ UNCHANGED <<args, catalog, ext_table, ext, match_info, out, sf>>

\* One pass of the loop of match_catalogs: match the next external source
\* against the whole pointing table and append the result.
MatchCatalogsStep ==
    /\ pc = "matching"
    /\ Len(matches) < Len(ext.sources)
    /\ \E z \in [Coincident(ext.sources[Len(matches) + 1], pointing.cat)
                    -> ZeroDivOutcome] :
         LET source == ext.sources[Len(matches) + 1]
             call   == SourceMatch(source, pointing.cat, sigma_extent,
                                   search_dist, MakeHeader(pointing.header), z)
         IN  /\ matches' = Append(matches, call.result)
             /\ calls' = Append(calls, call)
    /\ pc' = IF Len(matches) + 1 = Len(ext.sources) THEN "info" ELSE "matching"
    /\ UNCHANGED <<args, catalog, ext_table, pointing, ext, match_info, out, sf>>

\* --------------------------------------------------------------- info_match
\* values[stats_select]: the entries of values where the mask is true.
RECURSIVE Masked(_, _)
Masked(values, mask) ==
    IF values = <<>> THEN <<>>
    ELSE (IF mask[1] THEN <<values[1]>> ELSE <<>>)
             \o Masked(Tail(values), Tail(mask))

RLess(p, q) == ~RLeq(q, p)

RMin(s) == CHOOSE x \in Range(s) : \A y \in Range(s) : RLeq(x, y)

RMax(s) == CHOOSE x \in Range(s) : \A y \in Range(s) : RLeq(y, x)

Mean(s) == RDiv(RSum(s), RInt(Len(s)))

Median(s) ==
    LET t == SortSeq(s, RLess)
        n == Len(s)
    IN  IF n % 2 = 1 THEN t[(n + 1) \div 2]
        ELSE RDiv(RAdd(t[n \div 2], t[n \div 2 + 1]), RInt(2))

\* np.std is the square root of the mean squared deviation; the record keeps
\* that mean (the variance) exactly.
Variance(s) ==
    LET sq == [k \in 1..Len(s) |-> RMul(s[k], s[k])]
    IN  RSub(Mean(sq), RMul(Mean(s), Mean(s)))

\* get_stats = [np.min, np.max, np.std, np.mean, np.median, len] on a
\* non-empty array.
GetStats(s) ==
    [min    |-> RMin(s),
     max    |-> RMax(s),
     std    |-> [sqrt_of |-> Variance(s)],
     mean   |-> Mean(s),
     median |-> Median(s),
     len    |-> Len(s)]

\* list(np.unique(n_matches)), before 'Full' is appended
MatchingClass(n_matches) == Range(n_matches)

\* As StatsSelect, selecting every class from cl upwards.
StatsSelectAtLeast(n_matches, cl) ==
    [k \in 1..Len(n_matches) |-> n_matches[k] >= cl]

\* As StatsSelect, selecting every class up to cl.
StatsSelectAtMost(n_matches, cl) ==
    [k \in 1..Len(n_matches) |-> n_matches[k] <= cl]

\* stats_select for a multiplicity class: n_matches == cl
StatsSelect(n_matches, cl) == [k \in 1..Len(n_matches) |-> n_matches[k] = cl]

\* The stats dictionary of one data column: an entry keyed str(cl) for every
\* class in matching_class and the entry 'Full' over all values.
StatsTable(values, n_matches) ==
    LET cls == MatchingClass(n_matches)
    IN  [key \in {ToString(c) : c \in cls} \cup {"Full"} |->
           IF key = "Full" THEN GetStats(values)
           ELSE LET cl == CHOOSE c \in cls : ToString(c) = key
                IN  GetStats(Masked(values, StatsSelect(n_matches, cl)))]

\* As MatchedPairs, leaving the inner loop after the first match.
RECURSIVE MatchedPairsFirstOnly(_, _)
MatchedPairsFirstOnly(ms, i) ==
    IF ms = <<>> THEN <<>>
    ELSE (IF ms[1] = <<>> THEN <<>>
          ELSE << [i |-> i, m |-> ms[1][1], n |-> Len(ms[1])] >>)
             \o MatchedPairsFirstOnly(Tail(ms), i + 1)

\* The (i, m) pairs in the order the offset loop visits them: external
\* sources in order, the matches of each in the order match returned them.
RECURSIVE MatchedPairs(_, _)
MatchedPairs(ms, i) ==
    IF ms = <<>> THEN <<>>
    ELSE [k \in 1..Len(ms[1]) |-> [i |-> i, m |-> ms[1][k], n |-> Len(ms[1])]]
             \o MatchedPairs(Tail(ms), i + 1)

\* As MatchedSources, recording an external source once for each of its
\* matches.
RECURSIVE MatchedSourcesPerMatch(_, _)
MatchedSourcesPerMatch(ms, i) ==
    IF ms = <<>> THEN <<>>
    ELSE [k \in 1..Len(ms[1]) |-> i] \o MatchedSourcesPerMatch(Tail(ms), i + 1)

\* The external indices the flux loop records: those with a match.
RECURSIVE MatchedSources(_, _)
MatchedSources(ms, i) ==
    IF ms = <<>> THEN <<>>
    ELSE (IF Len(ms[1]) > 0 THEN <<i>> ELSE <<>>)
             \o MatchedSources(Tail(ms), i + 1)

\* As FluxOf, reading the total flux whatever the fluxtype.
FluxOfAlwaysTotal(source, fluxtype) == source.IntFlux

\* The flux the chosen fluxtype reads from a source.
FluxOf(source, fluxtype) ==
    IF fluxtype = "Total" THEN source.IntFlux ELSE source.PeakFlux

\* (pointing.freq / ext.freq) ** -alpha
FreqScaling(pfreq, efreq, alpha) == Rat(IntPow(efreq, alpha), IntPow(pfreq, alpha))

\* As OffsetInfo, reading the pointing source at the place a match has in
\* its match set instead of the source the match names.
OffsetInfoByPlace(pt, ex, ms) ==
    LET orig == MatchedPairs(ms, 0)
        place(k) == Cardinality({h \in 1..k : orig[h].i = orig[k].i})
        off(k) == SphericalOffsetsTo(ex.sources[orig[k].i + 1],
                                     pt.sources[place(k)])
    IN  [dRA  |-> [k \in 1..Len(orig) |-> RInt(off(k).dra * 60)],
         dDEC |-> [k \in 1..Len(orig) |-> RInt(off(k).ddec * 60)],
         n_matches |-> [k \in 1..Len(orig) |-> orig[k].n]]

\* The offset part of info_match: one residual (arcseconds) and one class per
\* matched pair.  Indices are 0-based as in the source.
OffsetInfo(pt, ex, ms) ==
    LET pairs == MatchedPairs(ms, 0)
        off(k) == SphericalOffsetsTo(ex.sources[pairs[k].i + 1],
                                     pt.sources[pairs[k].m + 1])
        dRA  == [k \in 1..Len(pairs) |-> RInt(off(k).dra * 60)]
        dDEC == [k \in 1..Len(pairs) |-> RInt(off(k).ddec * 60)]
        n_matches == [k \in 1..Len(pairs) |-> pairs[k].n]
    IN  [dRA |-> dRA, dDEC |-> dDEC, n_matches |-> n_matches]

\* The flux part: one entry per external source with a match.
FluxInfo(pt, ex, ms, fluxtype, alpha) ==
    LET idx == MatchedSources(ms, 0)
        ext_flux == [k \in 1..Len(idx) |-> FluxOf(ex.sources[idx[k] + 1], fluxtype)]
        int_flux == [k \in 1..Len(idx) |->
                       SeqSum([q \in 1..Len(ms[idx[k] + 1]) |->
                                 FluxOf(pt.sources[ms[idx[k] + 1][q] + 1], fluxtype)])]
        centre == [RA |-> pt.header.CRVAL1, DEC |-> pt.header.CRVAL2]
        separation == [k \in 1..Len(idx) |->
                         Rat(Separation(ex.sources[idx[k] + 1], centre), 60)]
        n_matches == [k \in 1..Len(idx) |-> Len(ms[idx[k] + 1])]
        scaling == FreqScaling(pt.freq, ex.freq, alpha)
        dFlux == [k \in 1..Len(idx) |->
                    RDiv(RInt(int_flux[k]), RMul(RInt(ext_flux[k]), scaling))]
    IN  [fluxtype |-> fluxtype, ext_flux |-> ext_flux, int_flux |-> int_flux,
         separation |-> separation, n_matches |-> n_matches,
         alpha |-> alpha, dFlux |-> dFlux]

\* info_match.  The offset statistics come first and np.min raises on an
\* empty array; the fluxtype is looked at after them.
InfoMatch ==
    /\ pc = "info"
    /\ LET off == OffsetInfo(pointing, ext, matches)
           flx == FluxInfo(pointing, ext, matches, args.fluxtype, args.alpha)
       IN  IF Len(off.dRA) = 0
           THEN /\ pc' = "fault_empty_stats"
                /\ match_info' = match_info
           ELSE IF args.fluxtype \notin {"Total", "Peak"}
           THEN /\ pc' = "exit_invalid_fluxtype"
                /\ match_info' = match_info
           ELSE /\ pc' = "info_done"
                /\ match_info' =
                     [made   |-> TRUE,
                      offset |-> [dRA |-> off.dRA, dDEC |-> off.dDEC,
                                  n_matches |-> off.n_matches,
                                  stats |-> [dRA  |-> StatsTable(off.dRA, off.n_matches),
                                             dDEC |-> StatsTable(off.dDEC, off.n_matches)]],
                      fluxes |-> [data  |-> flx,
                                  stats |-> [dFlux |-> StatsTable(flx.dFlux, flx.n_matches)]]]
    /\ UNCHANGED <<args, catalog, ext_table, pointing, ext, matches, calls, out, sf>>

\* ------------------------------------------------------- the outputs of main
\* As PlotCatalogMatch, with every match set turned round in place while the
\* ellipses are drawn.
PlotCatalogMatchReversing ==
    /\ pc = "info_done"
    /\ pc' = "plotted"
    /\ matches' = [i \in 1..Len(matches) |->
                     [k \in 1..Len(matches[i]) |->
                        matches[i][Len(matches[i]) + 1 - k]]]
    /\ UNCHANGED <<args, catalog, ext_table, pointing, ext, calls,
                   match_info, out, sf>>

\* plot_catalog_match (with plot_astrometrics and plot_fluxes, which are
\* handed matches_info only): draws the ellipses of the matched and of the
\* unmatched sources; with or without --plot the program state is the same.
PlotCatalogMatch ==
    /\ pc = "info_done"
    /\ pc' = "plotted"
    /\ UNCHANGED <<args, catalog, ext_table, pointing, ext, matches, calls,
                   match_info, out, sf>>

\* A table row with the column name set to value.
WithColumn(row, name, value) ==
    [f \in DOMAIN row \cup {name} |-> IF f = name THEN value ELSE row[f]]

\* The values of a float column: a number, or np.inf.
Float(x) == [inf |-> FALSE, val |-> x]

Infinity == [inf |-> TRUE, val |-> 0]

\* As AssignIdx, leaving a row that already holds an external index as it is.
RECURSIVE AssignIdxFirstWrite(_, _, _)
AssignIdxFirstWrite(idx, ms, i) ==
    IF ms = <<>> THEN idx
    ELSE AssignIdxFirstWrite(
             [j \in DOMAIN idx |->
                IF (j - 1) \in Range(ms[1]) /\ idx[j].inf THEN Float(i) ELSE idx[j]],
             Tail(ms), i + 1)

\* pointing.cat['idx'] after the loops of write_to_catalog over the match
\* sets from external source i on: row j holds the last i written to it.
RECURSIVE AssignIdx(_, _, _)
AssignIdx(idx, ms, i) ==
    IF ms = <<>> THEN idx
    ELSE AssignIdx([j \in DOMAIN idx |->
                      IF (j - 1) \in Range(ms[1]) THEN Float(i) ELSE idx[j]],
                   Tail(ms), i + 1)

\* join(ext.cat, pointing.cat, keys='idx'): one row for every pair of rows
\* with the same idx, in the order of the key.
RECURSIVE Join(_, _)
Join(ext_cat, pointing_cat) ==
    IF ext_cat = <<>> THEN <<>>
    ELSE LET SameIdx(row) == row.idx = Float(ext_cat[1].idx)
             right == SelectSeq(pointing_cat, SameIdx)
         IN  [k \in 1..Len(right) |->
                [idx |-> ext_cat[1].idx, ext |-> ext_cat[1], pointing |-> right[k]]]
             \o Join(Tail(ext_cat), pointing_cat)

\* write_to_catalog and write_info, run when --output is given: both tables
\* get their idx column and the joined table is written.
WriteToCatalog ==
    /\ pc = "plotted"
    /\ \E output \in BOOLEAN :
         IF output
         THEN LET ext_cat == [k \in 1..Len(ext.cat) |->
                                WithColumn(ext.cat[k], "idx", k - 1)]
                  idx == AssignIdx([j \in 1..Len(pointing.cat) |-> Infinity],
                                   matches, 0)
                  pointing_cat == [j \in 1..Len(pointing.cat) |->
                                     WithColumn(pointing.cat[j], "idx", idx[j])]
              IN  /\ ext' = [ext EXCEPT !.cat = ext_cat]
                  /\ pointing' = [pointing EXCEPT !.cat = pointing_cat]
                  /\ out' = [written |-> TRUE, rows |-> Join(ext_cat, pointing_cat)]
         ELSE UNCHANGED <<ext, pointing, out>>
    /\ pc' = "written"
    /\ UNCHANGED <<args, catalog, ext_table, matches, calls, match_info, sf>>

\* kvis.matches_to_kvis, run when --annotate is given: writes an annotation
\* file from the catalogues and the match table.
MatchesToKvis ==
    /\ pc = "written"
    /\ pc' = "exit"
    /\ UNCHANGED <<args, catalog, ext_table, pointing, ext, matches, calls,
                   match_info, out, sf>>

Next ==
    \/ Load
    \/ MatchCatalogsStep
    \/ InfoMatch
    \/ PlotCatalogMatch
    \/ WriteToCatalog
    \/ MatchesToKvis

Spec == Init /\ [][Next]_vars

\* ========================================================= sourcefinding.py
\* Strings are sequences of characters, so that lower(), split(':'), the
\* substring test str in str and str.replace are computed as Python does.
MaxFormats == 2

Lower(s) ==
    [k \in 1..Len(s) |->
       CASE s[k] = "C" -> "c" [] s[k] = "M" -> "m" [] s[k] = "F" -> "f"
         [] s[k] = "I" -> "i" [] s[k] = "T" -> "t" [] s[k] = "S" -> "s"
         [] s[k] = "R" -> "r" [] s[k] = "L" -> "l" [] OTHER -> s[k]]

\* s in t for two strings: s occurs in t as a contiguous run of characters.
IsIn(s, t) ==
    \E k \in 0..(Len(t) - Len(s)) : SubSeq(t, k + 1, k + Len(s)) = s

\* s.split(':'): the parts between the colons, at least one part.
RECURSIVE Split(_)
Split(s) ==
    IF \A k \in 1..Len(s) : s[k] # ":" THEN << s >>
    ELSE LET c == CHOOSE k \in 1..Len(s) :
                    s[k] = ":" /\ \A h \in 1..(k - 1) : s[h] # ":"
         IN  << SubSeq(s, 1, c - 1) >> \o Split(SubSeq(s, c + 1, Len(s)))

\* One pass of the loop of run_bdsf over output_format.  st holds outcat
\* (<<>> for None), cat_type (<<>> while unbound), the catalogues written and
\* whether the loop has raised.
BdsfEntry(st, of) ==
    LET parts == Split(Lower(of))
        one   == Len(parts) = 1
        \* fmt = fmt[0]; a name of two characters is then unpacked as a pair
        fmt   == IF one
                 THEN (IF Len(parts[1]) = 2 THEN << parts[1][1] >> ELSE parts[1])
                 ELSE parts[1]
        cat_type == IF one
                    THEN (IF Len(parts[1]) = 2 THEN << parts[1][2] >> ELSE <<"s", "r", "l">>)
                    ELSE parts[2]
    IN  IF st.raised THEN st
        ELSE IF Len(parts) > 2
        \* fmt is still the list: the file name cannot be put together
        THEN [st EXCEPT !.raised = TRUE]
        ELSE IF fmt = <<"d", "s", "9">>
        THEN [st EXCEPT !.cat_type = cat_type,
                        !.written = @ \cup {[format |-> fmt, type |-> cat_type]}]
        ELSE IF fmt \in {<<"k", "v", "i", "s">>, <<"s", "t", "a", "r">>}
        THEN [st EXCEPT !.cat_type = cat_type,
                        !.written = @ \cup {[format |-> fmt, type |-> <<"g", "a", "u", "l">>]}]
        ELSE [st EXCEPT !.cat_type = cat_type,
                        !.written = @ \cup {[format |-> fmt, type |-> cat_type]},
                        !.outcat = IF fmt = <<"f", "i", "t", "s">> /\ cat_type = <<"s", "r", "l">>
                                   THEN cat_type \o <<"_", "b", "d", "s", "f", "c", "a", "t", ".">> \o fmt
                                   ELSE @]

\* run_bdsf: PyBDSF processes the image, then one catalogue is written per
\* entry of output_format; outcat is the name of the FITS source list.
RECURSIVE RunBdsfLoop(_, _)
RunBdsfLoop(st, output_format) ==
    IF output_format = <<>> THEN st
    ELSE RunBdsfLoop(BdsfEntry(st, output_format[1]), Tail(output_format))

\* As RunBdsf, keeping only what the last entry of output_format gave.
RunBdsfLastEntry(output_format) ==
    RunBdsfLoop([outcat |-> <<>>, cat_type |-> <<>>, written |-> {},
                 raised |-> FALSE],
                << output_format[Len(output_format)] >>)

RunBdsf(output_format) ==
    RunBdsfLoop([outcat |-> <<>>, cat_type |-> <<>>, written |-> {},
                 raised |-> FALSE], output_format)

\* s.replace(old, new)
RECURSIVE Replace(_, _, _)
Replace(s, old, new) ==
    IF Len(s) < Len(old) THEN s
    ELSE IF SubSeq(s, 1, Len(old)) = old
    THEN new \o Replace(SubSeq(s, Len(old) + 1, Len(s)), old, new)
    ELSE << s[1] >> \o Replace(Tail(s), old, new)

\* The positional argument mode and the entries of --output_format.
ModePool ==
    { <<"c", "a", "t", "a", "l", "o", "g", "i", "n", "g">>, <<"c">>, <<"C">>, <<"m", "a", "s", "k", "i", "n", "g">>, <<"m">>, <<"c", "a", "t", "a", "l", "o", "g">>, <<"i", "n", "g">>, <<"x">> }

FormatPool ==
    { <<"f", "i", "t", "s">>, <<"f", "i", "t", "s", ":", "s", "r", "l">>, <<"F", "I", "T", "S", ":", "S", "R", "L">>, <<"f", "i", "t", "s", ":", "g", "a", "u", "l">>, <<"d", "s", "9">>, <<"k", "v", "i", "s">>,
      <<"f", "i", "t", "s", ":", "s", "r", "l", ":", "x">> }

\* The command line of sourcefinding.py.  --output_format takes one or more
\* entries; without the option output_format is None.
SfArgSpace ==
    [mode           : ModePool,
     format_given   : {TRUE},
     output_format  : UNION {[1..k -> FormatPool] : k \in 1..MaxFormats},
     size           : {1, 2},
     plot           : BOOLEAN,
     spectral_index : BOOLEAN]
    \cup
    [mode           : ModePool,
     format_given   : {FALSE},
     output_format  : {<<>>},
     size           : {1, 2},
     plot           : BOOLEAN,
     spectral_index : BOOLEAN]

\* The state of a run of sourcefinding.main: where it is, its arguments, the
\* parameter file, outcat (<<>> for None), the calls made so far, the output
\* branches entered and the catalogues written.
SfStart(a) ==
    [pc |-> "start", args |-> a, bdsf_args |-> <<>>, outcat |-> <<>>,
     steps |-> <<>>, outputs |-> {}, files |-> {}]

SfInit ==
    /\ sf \in {SfStart(a) : a \in SfArgSpace}
    /\ pc = "not_run"
    /\ args \in {a \in ArgSpace : a.match_sigma_extent = 3 /\ a.search_dist = 0
                                   /\ a.fluxtype = "Total" /\ a.alpha = 0}
    /\ catalog = <<>>
    /\ ext_table = <<>>
    /\ pointing = NoCatalog
    /\ ext = NoCatalog
    /\ matches = <<>>
    /\ calls = <<>>
    /\ match_info = NoInfo
    /\ out = NoFile

cm_vars == <<pc, args, catalog, ext_table, pointing, ext, matches, calls, match_info, out>>

\* main, lines 267-273: the parameter file by mode, or the exit.
SfSelectParset ==
    /\ sf.pc = "start"
    /\ sf' = IF IsIn(Lower(sf.args.mode), <<"c", "a", "t", "a", "l", "o", "g", "i", "n", "g">>)
             THEN [sf EXCEPT !.pc = "parset", !.bdsf_args = <<"b", "d", "s", "f", "_", "a", "r", "g", "s", "_", "c", "a", "t", ".", "j", "s", "o", "n">>]
             ELSE IF IsIn(Lower(sf.args.mode), <<"m", "a", "s", "k", "i", "n", "g">>)
             THEN [sf EXCEPT !.pc = "parset", !.bdsf_args = <<"b", "d", "s", "f", "_", "a", "r", "g", "s", "_", "m", "a", "s", "k", ".", "j", "s", "o", "n">>]
             ELSE [sf EXCEPT !.pc = "exit_invalid_mode"]
    /\ UNCHANGED cm_vars

\* main, lines 275-288: the default output format, run_bdsf, and the exit
\* when it returned no catalogue.
SfRunBdsf ==
    /\ sf.pc = "parset"
    /\ LET output_format == IF sf.args.format_given THEN sf.args.output_format
                            ELSE << <<"f", "i", "t", "s", ":", "s", "r", "l">> >>
           run == RunBdsf(output_format)
       IN  sf' = [sf EXCEPT !.steps = Append(@, "process_image"),
                            !.files = run.written,
                            !.outcat = run.outcat,
                            !.pc = IF run.raised THEN "fault_run_bdsf"
                                   ELSE IF run.outcat = <<>> THEN "exit_no_catalog"
                                   ELSE "catalog_read"]
    /\ UNCHANGED cm_vars

\* main, lines 290-297: the catalogue is read and turned into regions, then
\* plotted and given spectral indices when asked for.
SfReadCatalog ==
    /\ sf.pc = "catalog_read"
    /\ sf' = [sf EXCEPT
                !.steps = @ \o (IF sf.args.plot THEN <<"plot_sf_results">> ELSE <<>>)
                            \o (IF sf.args.spectral_index THEN <<"read_alpha">> ELSE <<>>),
                !.pc = "cataloging_output"]
    /\ UNCHANGED cm_vars

\* main, lines 300-304: the output of cataloging.
SfCatalogingOutput ==
    /\ sf.pc = "cataloging_output"
    /\ sf' = IF IsIn(Lower(sf.args.mode), <<"c", "a", "t", "a", "l", "o", "g", "i", "n", "g">>)
             THEN [sf EXCEPT
                     !.outcat = Replace(@, <<"s", "r", "l", "_">>, <<>>),
                     !.steps = @ \o <<"transform_cat", "write_catalog">>,
                     !.outputs = @ \cup {"cataloging"},
                     !.files = @ \cup {[format |-> <<"f", "i", "t", "s">>, type |-> <<>>]},
                     !.pc = "masking_output"]
             ELSE [sf EXCEPT !.pc = "masking_output"]
    /\ UNCHANGED cm_vars

\* main, lines 306-312: the output of masking, and the move of the log file.
\* The first statement of the masking branch reads outcats[i]; neither name
\* is bound anywhere in the module, so the branch raises NameError before
\* it writes anything.
SfMaskingOutput ==
    /\ sf.pc = "masking_output"
    /\ sf' = IF IsIn(Lower(sf.args.mode), <<"m", "a", "s", "k", "i", "n", "g">>)
             THEN [sf EXCEPT !.outputs = @ \cup {"masking"},
                             !.pc = "fault_name_error"]
             ELSE [sf EXCEPT !.pc = "exit"]
    /\ UNCHANGED cm_vars

SfNext ==
    \/ SfSelectParset
    \/ SfRunBdsf
    \/ SfReadCatalog
    \/ SfCatalogingOutput
    \/ SfMaskingOutput

SfSpec == SfInit /\ [][SfNext]_vars

\* ==================================================================== claims
CallIdx == 1..Len(calls)

PtIdx == 1..Len(pointing.cat)

Returned(i, j) == (j - 1) \in Range(matches[i])

SameEllipse(a, b) ==
    /\ a.RA = b.RA /\ a.DEC = b.DEC
    /\ a.Maj = b.Maj /\ a.Min = b.Min /\ a.PA = b.PA

\* C1: whenever a match call has returned, every pointing source whose coarse
\* minor-axis test min_match is true is among the returned indices, whatever
\* the exact polygon test answered for it.
C1_DefiniteMatchReturned ==
    \A i \in CallIdx : \A j \in PtIdx :
        calls[i].min_match[j] => Returned(i, j)

\* C2: a match call in which the exact test reported no overlap for a source
\* whose min_match is true ends in the error CoarseExactMismatch instead of
\* returning a result without that source.
C2_ClearedDefiniteIsFault ==
    \A i \in CallIdx :
        (\E j \in calls[i].msource_idx :
            calls[i].min_match[j] /\ ~calls[i].maj_match[j])
        => calls[i].outcome = "CoarseExactMismatch"

\* C3: with sigma_extent 3 and search_dist 0, a pointing source with the RA,
\* Dec, Maj, Min and PA of the external source is among the returned indices;
\* when it is the only pointing source the result is {0}, and info_match
\* records for it the multiplicity class 1 and the residual dRA = dDEC = 0.
C3_SelfMatch ==
    (sigma_extent = 3 /\ search_dist = 0) =>
        \A i \in CallIdx : \A j \in PtIdx :
            SameEllipse(ext.sources[i], pointing.sources[j]) =>
                /\ Returned(i, j)
                /\ Len(pointing.cat) = 1 => matches[i] = <<0>>
                /\ (Len(pointing.cat) = 1 /\ match_info.made) =>
                     \E k \in 1..Len(match_info.offset.dRA) :
                        /\ k = Cardinality({h \in 1..i : matches[h] # <<>>})
                        /\ match_info.offset.n_matches[k] = 1
                        /\ match_info.offset.dRA[k] = RInt(0)
                        /\ match_info.offset.dDEC[k] = RInt(0)

\* C3 witness: the identical source is the only pointing source, the division
\* by the zero separation gave nan so that the exact test decided, and
\* info_match has produced its record.
C3_Witness ==
    /\ pc = "info_done"
    /\ sigma_extent = 3 /\ search_dist = 0
    /\ Len(pointing.cat) = 1
    /\ \E i \in CallIdx :
         /\ SameEllipse(ext.sources[i], pointing.sources[1])
         /\ calls[i].msource_idx = {1}
         /\ matches[i] = <<0>>

\* C4: for a pointing source at zero separation the deprojection factor is 1:
\* the coarse maj_match is 0 < FWHM_to_sigma_extent * (Maj/2 + maj/2) +
\* search_dist, and no division by zero enters it.
C4_CoincidentFactorIsOne ==
    \A i \in CallIdx : \A j \in PtIdx :
        Separation(ext.sources[i], pointing.cat[j]) = 0 =>
            calls[i].maj_coarse[j]
                = (0 < MajBound(ext.sources[i], pointing.cat[j],
                                sigma_extent, search_dist))

Finished ==
    {"info", "info_done", "exit_invalid_fluxtype", "fault_empty_stats",
     "plotted", "written", "exit"}

\* C5: match_catalogs returns one match set per external source, in the order
\* of the external catalogue: entry i is what the match call of
\* ext.sources[i] against the whole pointing table returned.
C5_OneMatchSetPerSource ==
    /\ Len(matches) = Len(calls)
    /\ Len(matches) <= Len(ext.sources)
    /\ pc \in Finished => Len(matches) = Len(ext.sources)
    /\ \A i \in CallIdx :
         /\ calls[i].source = ext.sources[i]
         /\ matches[i] = calls[i].result
         /\ DOMAIN calls[i].maj_match = PtIdx
         /\ \A j \in PtIdx : Returned(i, j) <=> calls[i].maj_match[j]

\* C5 witness: match_catalogs has returned two entries, the first of them
\* empty and the second not.
C5_Witness ==
    /\ pc = "info"
    /\ Len(matches) = 2
    /\ matches[1] = <<>>
    /\ matches[2] # <<>>

C7_ValidationAtEntry ==
    (sigma_extent <= 0 \/ args.fluxtype \notin {"Total", "Peak"})
        => calls = <<>>

PairsBefore(i) == SeqSum([h \in 1..(i - 1) |-> Len(matches[h])])

\* C8: info_match records one residual (dRA, dDEC) per matched pair (i, j),
\* with the class len(matches[i]); dRA, dDEC and n_matches each have as many
\* entries as there are matched pairs.
C8_OneResidualPerPair ==
    match_info.made =>
        LET off   == match_info.offset
            total == PairsBefore(Len(matches) + 1)
        IN  /\ Len(off.dRA) = total
            /\ Len(off.dDEC) = total
            /\ Len(off.n_matches) = total
            /\ \A i \in 1..Len(matches) : \A q \in 1..Len(matches[i]) :
                 LET k == PairsBefore(i) + q
                     o == SphericalOffsetsTo(ext.sources[i],
                                             pointing.sources[matches[i][q] + 1])
                 IN  /\ off.n_matches[k] = Len(matches[i])
                     /\ off.dRA[k] = RInt(60 * o.dra)
                     /\ off.dDEC[k] = RInt(60 * o.ddec)

\* C8 witness: a record for a table in which one external source has two
\* counterparts and another has one.
C8_Witness ==
    /\ match_info.made
    /\ \E i, h \in 1..Len(matches) : Len(matches[i]) = 2 /\ Len(matches[h]) = 1

Matched == {i \in 1..Len(matches) : matches[i] # <<>>}

\* C9: info_match produces one flux ratio for every external source with a
\* match and for no other: the sum of the matched pointing fluxes of the
\* chosen type (IntFlux for Total, PeakFlux for Peak) over
\* ext_flux * (pointing.freq / ext.freq) ** -alpha.
C9_FluxRatio ==
    match_info.made =>
        LET d == match_info.fluxes.data
            chosen(s) == IF args.fluxtype = "Total" THEN s.IntFlux ELSE s.PeakFlux
        IN  /\ Len(d.dFlux) = Cardinality(Matched)
            /\ \A i \in Matched :
                 LET k   == Cardinality({h \in Matched : h <= i})
                     sum == SeqSum([q \in 1..Len(matches[i]) |->
                                chosen(pointing.sources[matches[i][q] + 1])])
                 IN  d.dFlux[k] =
                        Rat(sum * IntPow(pointing.freq, args.alpha),
                            chosen(ext.sources[i]) * IntPow(ext.freq, args.alpha))

\* C9 witness: a record for Peak fluxes and alpha 1 in which one external
\* source has two counterparts and another has none.
C9_Witness ==
    /\ match_info.made
    /\ args.fluxtype = "Peak" /\ args.alpha = 1
    /\ \E i, h \in 1..Len(matches) : Len(matches[i]) = 2 /\ matches[h] = <<>>

ClassesOf == {Len(matches[i]) : i \in Matched}

OfClass(values, classes, k) ==
    LET idx == Ascending({p \in 1..Len(values) : classes[p] = k})
    IN  [q \in 1..Len(idx) |-> values[idx[q]]]

StatsTableAsClaimed(table, values, classes) ==
    /\ DOMAIN table = {"Full"} \cup {ToString(k) : k \in ClassesOf}
    /\ "0" \notin DOMAIN table
    /\ table["Full"] = GetStats(values)
    /\ \A k \in ClassesOf :
         table[ToString(k)] = GetStats(OfClass(values, classes, k))
    /\ \A key \in DOMAIN table :
         DOMAIN table[key] = {"min", "max", "std", "mean", "median", "len"}

\* C10: for each of dRA, dDEC and dFlux the statistics have the entry 'Full'
\* over all values and one entry per multiplicity class that occurs, over
\* the values of that class; there is no entry for any other class (none for
\* class 0), and every entry holds min, max, std, mean, median and count.
C10_StatsPerClass ==
    match_info.made =>
        /\ StatsTableAsClaimed(match_info.offset.stats.dRA,
                               match_info.offset.dRA, match_info.offset.n_matches)
        /\ StatsTableAsClaimed(match_info.offset.stats.dDEC,
                               match_info.offset.dDEC, match_info.offset.n_matches)
        /\ StatsTableAsClaimed(match_info.fluxes.stats.dFlux,
                               match_info.fluxes.data.dFlux,
                               match_info.fluxes.data.n_matches)

\* C10 witness: a record for a table with the classes 1 and 2: three
\* residuals and two flux ratios.
C10_Witness ==
    /\ match_info.made
    /\ ClassesOf = {1, 2}
    /\ Len(match_info.offset.dRA) = 3
    /\ Len(match_info.fluxes.data.dFlux) = 2

\* C11: with a valid fluxtype, info_match returns its statistics record for
\* every match table match_catalogs produced, the table in which every match
\* set is empty included; it never ends in an uncaught fault.
C11_StatisticsForEveryTable ==
    (pc \in {"info_done", "exit_invalid_fluxtype", "fault_empty_stats"}
        /\ args.fluxtype \in {"Total", "Peak"})
    => (pc = "info_done" /\ match_info.made)

\* The orders of a table of n rows: pi[j] is the new place of row j.
Orderings(n) ==
    {pi \in [1..n -> 1..n] : \A a, b \in 1..n : a # b => pi[a] # pi[b]}

\* The pointing catalogue with row j moved to place pi[j].
Permuted(pt, pi) ==
    LET from(k) == CHOOSE j \in 1..Len(pt.cat) : pi[j] = k
    IN  [cat     |-> [k \in 1..Len(pt.cat) |-> pt.cat[from(k)]],
         sources |-> [k \in 1..Len(pt.cat) |-> pt.sources[from(k)]],
         header  |-> pt.header,
         freq    |-> pt.freq]

\* The match table with every (0-based) pointing index renamed by pi.
Remapped(ms, pi) ==
    [i \in 1..Len(ms) |-> [k \in 1..Len(ms[i]) |-> pi[ms[i][k] + 1] - 1]]

\* C12: when info_match has produced its record, moving the rows of the
\* pointing catalogue to any other order and renaming the indices in every
\* match set accordingly gives the same statistics (min, max, std, mean,
\* median, len) for dRA, dDEC and dFlux, for 'Full' and for every
\* multiplicity class, and the same set of class keys.
C12_StatisticsUnderRelabelling ==
    pc = "info_done" =>
        \A pi \in Orderings(Len(pointing.cat)) :
            LET pt2 == Permuted(pointing, pi)
                ms2 == Remapped(matches, pi)
                off == OffsetInfo(pt2, ext, ms2)
                flx == FluxInfo(pt2, ext, ms2, args.fluxtype, args.alpha)
                sRA == StatsTable(off.dRA, off.n_matches)
                sDEC == StatsTable(off.dDEC, off.n_matches)
                sFlux == StatsTable(flx.dFlux, flx.n_matches)
            IN  /\ DOMAIN sRA = DOMAIN match_info.offset.stats.dRA
                /\ DOMAIN sFlux = DOMAIN match_info.fluxes.stats.dFlux
                /\ sRA = match_info.offset.stats.dRA
                /\ sDEC = match_info.offset.stats.dDEC
                /\ sFlux = match_info.fluxes.stats.dFlux

\* C12 witness: statistics exist for a pointing catalogue of two sources in
\* which one external source is matched by the second source only and the
\* other by both, so that exchanging the two rows renames every index.
C12_Witness ==
    /\ pc = "info_done"
    /\ Len(pointing.cat) = 2
    /\ \E i \in 1..Len(matches) : matches[i] = <<1>>
    /\ \E i \in 1..Len(matches) : Len(matches[i]) = 2

\* The half width in RA of a footprint, in units of 1/Scale arcminute: the
\* minor half axis for PA 0, the major half axis for PA 90.
HalfWidth(row, margin) ==
    (2 * sigma_extent * SigmaNum * (IF row.PA = 0 THEN row.Min ELSE row.Maj)
        + Scale * margin) \div 2

HalfHeight(row, margin) ==
    (2 * sigma_extent * SigmaNum * (IF row.PA = 0 THEN row.Maj ELSE row.Min)
        + Scale * margin) \div 2

\* The footprints of external source i and pointing source j touch or
\* overlap on the sky: both have area, and along their common parallel the
\* great-circle separation of the centres is at most the sum of the half
\* widths.
FootprintsMeet(i, j) ==
    /\ HalfWidth(ext.sources[i], 0) > 0
    /\ HalfHeight(ext.sources[i], 0) > 0
    /\ HalfWidth(pointing.cat[j], search_dist) > 0
    /\ HalfHeight(pointing.cat[j], search_dist) > 0
    /\ Scale * Separation(ext.sources[i], pointing.cat[j])
         <= HalfWidth(ext.sources[i], 0) + HalfWidth(pointing.cat[j], search_dist)

CheckPolygon(i) == CheckSource(ext.sources[i], sigma_extent, MakeHeader(pointing.header))

ToPolygon(j) ==
    ToSources(pointing.cat[j], sigma_extent, search_dist, MakeHeader(pointing.header))

CrossesRAZero(i, j) == RaCheck(CheckPolygon(i)) \/ RaCheck(ToPolygon(j))

Footprints ==
    {CheckPolygon(i) : i \in 1..Len(ext.sources)} \cup {ToPolygon(j) : j \in PtIdx}

\* C14: the overlap decision is symmetric: for any two footprints A and B,
\* each tested as one polygon or as the two parts split at RA = 0, the
\* decision with A as the external and B as the pointing footprint is the
\* decision with the roles exchanged.  The footprints are fixed once the
\* catalogues are loaded, so the decision is compared as matching begins.
C14_OverlapSymmetric ==
    (pc = "matching" /\ calls = <<>>) =>
        \A A, B \in Footprints : DoTheyOverlap(A, B) = DoTheyOverlap(B, A)

\* C14 witness: the exact test has run for an external footprint split in
\* two parts against a pointing footprint of one part, and found overlap.
C14_Witness ==
    \E i \in CallIdx : \E j \in calls[i].msource_idx :
        /\ Len(EllipseRACheck(CheckPolygon(i))) = 2
        /\ Len(EllipseRACheck(ToPolygon(j))) = 1
        /\ calls[i].maj_match[j]
        /\ DoTheyOverlap(ToPolygon(j), CheckPolygon(i))

CataloguesUnchanged ==
    /\ pointing' = pointing
    /\ ext' = ext
    /\ catalog' = catalog
    /\ ext_table' = ext_table

\* C15: the catalogues are read-only during matching and statistics: every
\* step of match_catalogs (each a call of SourceEllipse.match) and info_match
\* leaves the rows, the sources and the header of the external and of the
\* pointing catalogue, and the tables they were built from, as they were.
C15_CataloguesReadOnly ==
    [][(pc \in {"matching", "info"}) => CataloguesUnchanged]_vars

\* C15 witness: two external sources have been matched against two pointing
\* sources and the statistics made, and both catalogues are still what the
\* constructors built from the tables.
C15_Witness ==
    /\ pc = "info_done"
    /\ Len(calls) = 2
    /\ Len(pointing.cat) = 2
    /\ pointing = Pointing(catalog)
    /\ ext = ExternalCatalog(ext_table)

AfterMatchCatalogs == {"info", "info_done", "plotted", "written", "exit"}

\* C16: the match table is not changed after match_catalogs has returned:
\* info_match, plot_catalog_match, write_to_catalog and the annotation step
\* leave every match set with the same elements in the same order.
C16_MatchTableNotMutated ==
    [][(pc \in AfterMatchCatalogs) => matches' = matches]_vars

\* C16 witness: all four readers have run, the joined catalogue was written,
\* and the table, with a match set of two sources in it, is still what the
\* match calls returned.
C16_Witness ==
    /\ pc = "exit"
    /\ out.written
    /\ \E i \in 1..Len(matches) : Len(matches[i]) = 2
    /\ \A i \in 1..Len(matches) : matches[i] = calls[i].result

\* The mode strings named by the help text of sourcefinding.py.
NamedModes == { <<"c", "a", "t", "a", "l", "o", "g", "i", "n", "g">>, <<"c">>, <<"m", "a", "s", "k", "i", "n", "g">>, <<"m">> }

\* C17: sourcefinding.main runs the output step of one mode only, never the
\* cataloging and the masking output in one invocation, and for a mode that
\* is neither cataloging/c nor masking/m it exits with 'Invalid mode' before
\* PyBDSF is run.
C17_OutputsOfOneMode ==
    /\ sf.pc # "not_run" => sf.outputs # {"cataloging", "masking"}
    /\ (sf.pc # "not_run" /\ Lower(sf.args.mode) \notin NamedModes)
         => (sf.pc \in {"start", "exit_invalid_mode"} /\ sf.steps = <<>>)

\* C18: in masking mode, once PyBDSF has produced the FITS source list, main
\* goes on to write_mask: it does not stop with an error between reading
\* the catalogue and writing the mask.
C18_MaskIsWritten ==
    (sf.pc # "not_run" /\ sf.bdsf_args = <<"b", "d", "s", "f", "_", "a", "r", "g", "s", "_", "m", "a", "s", "k", ".", "j", "s", "o", "n">>
        /\ sf.outcat # <<>>)
    => sf.pc # "fault_name_error"

\* output_format has an entry that reads, in lower case, fits or fits:srl.
HasFitsSrl(output_format) ==
    \E k \in 1..Len(output_format) :
        Split(Lower(output_format[k])) \in { << <<"f", "i", "t", "s">> >>, << <<"f", "i", "t", "s">>, <<"s", "r", "l">> >> }

EffectiveFormat ==
    IF sf.args.format_given THEN sf.args.output_format ELSE << <<"f", "i", "t", "s", ":", "s", "r", "l">> >>

RunBdsfReturned ==
    {"exit_no_catalog", "catalog_read", "cataloging_output", "masking_output",
     "fault_name_error", "exit"}

\* C19: when run_bdsf has returned, it returned a catalogue name exactly
\* when output_format has an entry of format fits and type srl (srl being
\* the type of an entry without one); when it returned None, main exits
\* having plotted nothing, measured no spectral index and written no
\* catalogue or mask of its own.
C19_CatalogIffFitsSrl ==
    sf.pc \in RunBdsfReturned =>
        /\ sf.outcat # <<>> <=> HasFitsSrl(EffectiveFormat)
        /\ sf.outcat = <<>> =>
             /\ sf.pc = "exit_no_catalog"
             /\ sf.steps = <<"process_image">>
             /\ sf.outputs = {}
             /\ sf.files = RunBdsf(EffectiveFormat).written

\* C19 witness: run_bdsf was given two entries, neither a FITS source list,
\* with --plot and --spectral_index set, and main has exited.
C19_Witness ==
    /\ sf.pc = "exit_no_catalog"
    /\ Len(sf.args.output_format) = 2
    /\ sf.args.output_format[1] = <<"f", "i", "t", "s", ":", "g", "a", "u", "l">>
    /\ sf.args.plot /\ sf.args.spectral_index
    /\ sf.outcat = <<>>

C21_SplitOrSingleTest ==
    \A i \in CallIdx : \A j \in calls[i].msource_idx :
        LET check_parts == EllipseRACheck(CheckPolygon(i))
            to_parts    == EllipseRACheck(ToPolygon(j))
        IN  IF RaCheck(CheckPolygon(i)) \/ RaCheck(ToPolygon(j))
            THEN calls[i].maj_match[j] <=>
                   \E pair \in (1..Len(check_parts)) \X (1..Len(to_parts)) :
                       PolygonsIntersect(check_parts[pair[1]], to_parts[pair[2]])
            ELSE calls[i].maj_match[j] <=>
                   PolygonsIntersect(CheckPolygon(i), ToPolygon(j))

\* C21 witness: the exact test has run twice in one run of the program, once
\* for an external footprint split in two against a pointing footprint in
\* one part, of which no pair of parts intersected, and once for two
\* footprints that do not cross RA = 0.
C21_Witness ==
    /\ \E i \in CallIdx : \E j \in calls[i].msource_idx :
         /\ RaCheck(CheckPolygon(i)) /\ ~RaCheck(ToPolygon(j))
         /\ Len(EllipseRACheck(CheckPolygon(i))) = 2
         /\ ~calls[i].maj_match[j]
    /\ \E i \in CallIdx : \E j \in calls[i].msource_idx :
         ~RaCheck(CheckPolygon(i)) /\ ~RaCheck(ToPolygon(j))

\* The per-class entries of a statistics table partition the positions of
\* its data column.
ClassesPartition(table, values, classes) ==
    LET keys == DOMAIN table \ {"Full"}
        cls  == Ascending(Range(classes))
    IN  /\ table["Full"].len = Len(values)
        /\ Len(classes) = Len(values)
        /\ \A p \in 1..Len(values) :
             Cardinality({key \in keys : key = ToString(classes[p])}) = 1
        /\ \A k \in Range(classes) :
             table[ToString(k)].len =
                 Cardinality({p \in 1..Len(values) : classes[p] = k})
        /\ SeqSum([q \in 1..Len(cls) |-> table[ToString(cls[q])].len])
               = table["Full"].len
        /\ Cardinality(keys) = Len(cls)

\* C22: in every statistics record the multiplicity classes partition the
\* recorded values: for each of dRA, dDEC and dFlux every value is counted in
\* exactly one class and the counts of the classes add up to the count of
\* 'Full'.
C22_ClassesPartitionValues ==
    match_info.made =>
        /\ ClassesPartition(match_info.offset.stats.dRA,
                            match_info.offset.dRA, match_info.offset.n_matches)
        /\ ClassesPartition(match_info.offset.stats.dDEC,
                            match_info.offset.dDEC, match_info.offset.n_matches)
        /\ ClassesPartition(match_info.fluxes.stats.dFlux,
                            match_info.fluxes.data.dFlux,
                            match_info.fluxes.data.n_matches)

\* C22 witness: a record with two classes in which the counts differ: of
\* three residuals one is of class 1 and two are of class 2, and of two flux
\* ratios one is of each class.
C22_Witness ==
    /\ match_info.made
    /\ DOMAIN match_info.offset.stats.dRA = {"1", "2", "Full"}
    /\ match_info.offset.stats.dRA["1"].len = 1
    /\ match_info.offset.stats.dRA["2"].len = 2
    /\ match_info.offset.stats.dRA["Full"].len = 3
    /\ match_info.fluxes.stats.dFlux["1"].len = 1
    /\ match_info.fluxes.stats.dFlux["2"].len = 1
    /\ match_info.fluxes.stats.dFlux["Full"].len = 2

\* The count a statistics table holds for class k, 0 when it has no entry.
CountOf(table, k) ==
    IF ToString(k) \in DOMAIN table THEN table[ToString(k)].len ELSE 0

\* C23: in every statistics record, for every multiplicity class k, the
\* count of offsets of class k is k times the count of flux ratios of class
\* k; the 'Full' count of the offsets is the sum of the sizes of the match
\* sets and the 'Full' count of the flux ratios is the number of external
\* sources with a non-empty match set.
C23_OffsetCountIsKTimesFluxCount ==
    match_info.made =>
        /\ \A k \in 0..Len(pointing.cat) :
             /\ CountOf(match_info.offset.stats.dRA, k)
                    = k * CountOf(match_info.fluxes.stats.dFlux, k)
             /\ CountOf(match_info.offset.stats.dDEC, k)
                    = k * CountOf(match_info.fluxes.stats.dFlux, k)
             /\ CountOf(match_info.fluxes.stats.dFlux, k)
                    = Cardinality({i \in 1..Len(matches) : Len(matches[i]) = k /\ k > 0})
        /\ DOMAIN match_info.offset.stats.dRA = DOMAIN match_info.fluxes.stats.dFlux
        /\ DOMAIN match_info.offset.stats.dDEC = DOMAIN match_info.fluxes.stats.dFlux
        /\ match_info.offset.stats.dRA["Full"].len
               = SeqSum([i \in 1..Len(matches) |-> Len(matches[i])])
        /\ match_info.offset.stats.dDEC["Full"].len
               = SeqSum([i \in 1..Len(matches) |-> Len(matches[i])])
        /\ match_info.fluxes.stats.dFlux["Full"].len
               = Cardinality({i \in 1..Len(matches) : matches[i] # <<>>})

\* C23 witness: a record for a table of two external sources that both have
\* two counterparts: four offsets and two flux ratios, all of class 2.
C23_Witness ==
    /\ match_info.made
    /\ Len(matches) = 2
    /\ \A i \in 1..2 : Len(matches[i]) = 2
    /\ match_info.offset.stats.dRA["2"].len = 4
    /\ match_info.fluxes.stats.dFlux["2"].len = 2

\* A row of pointing.cat without the idx column write_to_catalog adds.
CatalogColumns(row) == [f \in DOMAIN row \ {"idx"} |-> row[f]]

\* C24: every index match returns through match_catalogs is a valid position
\* in pointing.sources: each match set is strictly ascending (so without
\* duplicates) and within [0, len(pointing.cat)); pointing.sources has the
\* length and the order of the quality-filtered pointing.cat; so the source
\* info_match reads at a returned index exists and is the ellipse of the row
\* that was matched.
C24_IndicesValidInSources ==
    pc # "start" =>
        /\ Len(pointing.sources) = Len(pointing.cat)
        /\ [k \in 1..Len(pointing.cat) |-> CatalogColumns(pointing.cat[k])]
               = SelectSeq(catalog, GoodQuality)
        /\ \A k \in 1..Len(pointing.cat) :
               pointing.sources[k] = SourceEllipse(pointing.cat[k])
        /\ \A i \in 1..Len(matches) :
             /\ \A p \in 1..Len(matches[i]) :
                  /\ matches[i][p] \in 0..(Len(pointing.cat) - 1)
                  /\ matches[i][p] + 1 \in DOMAIN pointing.sources
                  /\ calls[i].maj_match[matches[i][p] + 1]
                  /\ SameEllipse(pointing.sources[matches[i][p] + 1],
                                 pointing.cat[matches[i][p] + 1])
             /\ \A p, q \in 1..Len(matches[i]) :
                  p < q => matches[i][p] < matches[i][q]

\* C24 witness: the first row of the catalogue was dropped by the quality
\* filter, so index 0 of a match set names the second row of the catalogue
\* read, and info_match has read pointing.sources at that index.
C24_Witness ==
    /\ match_info.made
    /\ Len(catalog) = 2
    /\ ~GoodQuality(catalog[1]) /\ GoodQuality(catalog[2])
    /\ \E i \in 1..Len(matches) : matches[i] = <<0>>

\* The external sources (1-based) whose match set holds pointing row j.
MatchedBy(j) == {i \in 1..Len(matches) : (j - 1) \in Range(matches[i])}

\* The rows of the joined table that belong to pointing row j.
JoinedRowsOf(j) == {r \in 1..Len(out.rows) : out.rows[r].pointing = pointing.cat[j]}

\* C25: after write_to_catalog every pointing source carries one external
\* index: a source in the match sets of several external sources holds the
\* largest of their indices, a source in no match set holds infinity and has
\* no row in the joined table, and the joined table has at most one row per
\* pointing source.
C25_LastWriteWins ==
    out.written =>
        /\ \A j \in PtIdx :
             /\ MatchedBy(j) # {} =>
                  /\ pointing.cat[j].idx = Float(SetMax(MatchedBy(j)) - 1)
                  /\ \A r \in JoinedRowsOf(j) :
                       /\ out.rows[r].idx = SetMax(MatchedBy(j)) - 1
                       /\ out.rows[r].ext = ext.cat[SetMax(MatchedBy(j))]
                  /\ Cardinality(JoinedRowsOf(j)) = 1
             /\ MatchedBy(j) = {} =>
                  /\ pointing.cat[j].idx = Infinity
                  /\ JoinedRowsOf(j) = {}
             /\ Cardinality(JoinedRowsOf(j)) <= 1
        /\ Len(out.rows) = Cardinality({j \in PtIdx : MatchedBy(j) # {}})
        /\ \A r \in 1..Len(out.rows) : \E j \in PtIdx : r \in JoinedRowsOf(j)

\* C25 witness: the joined table was written for a pointing with one source
\* in the match sets of both external sources, which holds index 1 and has
\* its one row with the second external source, and one source in no match
\* set.
C25_Witness ==
    /\ out.written
    /\ Len(matches) = 2
    /\ \E j, h \in PtIdx :
         /\ MatchedBy(j) = {1, 2}
         /\ pointing.cat[j].idx = Float(1)
         /\ MatchedBy(h) = {}
    /\ Len(out.rows) = 1
    /\ out.rows[1].ext = ext.cat[2]

====
